---- MODULE Spec2Model ----
(***************************************************************************)
(* The pairwise dispatch engine of torch/distributions/kl.py:              *)
(* register_kl, _Match, _dispatch_kl and kl_divergence, over the two       *)
(* module-level dictionaries _KL_REGISTRY and _KL_MEMOIZE.                 *)
(***************************************************************************)
EXTENDS Naturals, Sequences, FiniteSets, TLC

\* ------------------------------------------------------------- bounds
\* At most this many keys are ever put in _KL_REGISTRY.
MaxRules == 3
\* At most this many keys are ever put in _KL_MEMOIZE between two clears.
MaxMemo == 2
\* Calls started by the threads of the interleaved specification.
MaxCalls == 2

\* ------------------------------------------------------ type universe
\* Classes of the interpreter: object, Distribution (kl.py line 7) and
\* subclasses of Distribution in a single-inheritance tree.
Classes == {"object", "Distribution", "Normal", "Gamma"}

\* Values that are not classes at all (an instance, a string, a number).
NonClasses == {"notAClass"}

\* The single base class of each class (object has none).
Parent(c) ==
  CASE c = "Distribution" -> "object"
    [] c = "Normal" -> "Distribution"
    [] c = "Gamma" -> "Distribution"
    [] OTHER -> "None"

\* The classes that are Distribution or derive from it.
DistClasses == {"Distribution", "Normal", "Gamma"}

\* The (type_p, type_q) arguments register_kl is called with: the pairs of
\* Distribution and its subclass Normal, pairs with the unrelated subclass
\* Gamma, a pair of classes that are no Distributions, and pairs holding a
\* value that is no class.
RegisterInputs ==
  ({"Distribution", "Normal"} \X {"Distribution", "Normal"})
    \cup {<<"Gamma", "Gamma">>, <<"Distribution", "Gamma">>}
    \cup {<<"object", "object">>}
    \cup {<<"notAClass", "Normal">>, <<"Normal", "notAClass">>}

\* The (type(p), type(q)) of the instances kl_divergence is called with.
QueryInputs ==
  ({"Distribution", "Normal"} \X {"Distribution", "Normal"})
    \cup {<<"Gamma", "Gamma">>, <<"Normal", "Gamma">>, <<"Gamma", "Normal">>}

\* Handler functions that callers register.
Handlers == {"h1", "h2"}

\* The NotImplemented singleton returned by _dispatch_kl.
NotImplemented == "NotImplemented"

\* isinstance(t, type)
IsClass(t) == t \in Classes

RECURSIVE issubclass(_, _)
\* issubclass(x, y) for classes: walk x's chain of bases up to y.
issubclass(x, y) ==
  IF x = y THEN TRUE
  ELSE IF Parent(x) = "None" THEN FALSE
  ELSE issubclass(Parent(x), y)

\* ------------------------------------------------------------ _Match
\* _Match.__eq__: the two type tuples are equal.
MatchEq(m, n) == m = n

\* A slip in __le__: only the first position is compared.
MatchLeFirstOnly(m, n) == issubclass(m[1], n[1])

\* A slip in __le__: the walk does not stop at a strict subclass.
MatchLeNoBreak(m, n) ==
  \A i \in DOMAIN m \cap DOMAIN n : issubclass(m[i], n[i])

\* _Match.__le__: walk the positions; False at the first position where m's
\* type is no subclass of n's, True at the first where it is a strict one,
\* True when the positions run out.
MatchLe(m, n) ==
  LET RECURSIVE Walk(_)
      Walk(i) ==
        IF i > Len(m) \/ i > Len(n) THEN TRUE
        ELSE IF ~issubclass(m[i], n[i]) THEN FALSE
        ELSE IF m[i] # n[i] THEN TRUE
        ELSE Walk(i + 1)
  IN Walk(1)

\* __lt__ as functools.total_ordering derives it from __le__ and __eq__.
MatchLt(m, n) == MatchLe(m, n) /\ ~MatchEq(m, n)

\* A slip in the selection: the least specific match is taken.
MaxMatch(ms) ==
  LET RECURSIVE Scan(_, _)
      Scan(i, best) ==
        IF i > Len(ms) THEN best
        ELSE Scan(i + 1, IF MatchLt(best, ms[i]) THEN ms[i] ELSE best)
  IN Scan(2, ms[1])

\* The builtin min over a non-empty sequence of _Match objects: keep the first
\* item, replace it by each later item that is < the one kept.
MinMatch(ms) ==
  LET RECURSIVE Scan(_, _)
      Scan(i, best) ==
        IF i > Len(ms) THEN best
        ELSE Scan(i + 1, IF MatchLt(ms[i], best) THEN ms[i] ELSE best)
  IN Scan(2, ms[1])

\* reversed(m) of a pair.
Reversed(m) == <<m[2], m[1]>>

\* ------------------------------------------------------ _dispatch_kl
\* The keys of reg that the comprehension of line 87 keeps.
MatchSet(reg, type_p, type_q) ==
  {k \in DOMAIN reg : issubclass(type_p, k[1]) /\ issubclass(type_q, k[2])}

RECURSIVE Orders(_)
\* The orders in which a dictionary may hand out the keys in S.
Orders(S) ==
  IF S = {} THEN {<<>>}
  ELSE UNION {{<<k>> \o o : o \in Orders(S \ {k})} : k \in S}

\* The pair _dispatch_kl takes as (left_p, left_q).
LeftMatch(matches) == MinMatch(matches)

\* The pair _dispatch_kl takes as (right_p, right_q).
RightMatch(matches) ==
  Reversed(MinMatch([i \in DOMAIN matches |-> Reversed(matches[i])]))

\* A slip in line 100: right_fun is returned.
DispatchFunRight(reg, left, right) == reg[right]

\* The function _dispatch_kl returns.
DispatchFun(reg, left, right) == reg[left]

\* A slip in line 96: the selected pairs are compared, not their functions.
DispatchWarnsOnPairs(reg, left, right) == left # right

\* Whether _dispatch_kl calls warnings.warn.
DispatchWarns(reg, left, right) == reg[left] # reg[right]

NoAdvice == <<"None", "None">>

\* A slip in line 98: the warning names (right_p, left_q).
AdviceSwapped(left, right) == <<right[1], left[2]>>

\* The pair (left_p, right_q) that the warning of line 97 tells to register.
Advice(left, right) == <<left[1], right[2]>>

\* _dispatch_kl(type_p, type_q) with the matches listed in the order given:
\* the function returned, whether a warning was raised, and the pair
\* (left_p, right_q) the warning names.
DispatchKl(reg, matches) ==
  IF matches = <<>>
  THEN [fun |-> NotImplemented, warned |-> FALSE, advice |-> NoAdvice]
  ELSE LET left == LeftMatch(matches)
           right == RightMatch(matches)
           warns == DispatchWarns(reg, left, right)
       IN [fun |-> DispatchFun(reg, left, right),
           warned |-> warns,
           advice |-> IF warns THEN Advice(left, right) ELSE NoAdvice]

\* Every result _dispatch_kl can give for the query, over the orders in which
\* the registry may be scanned.
Resolutions(reg, type_p, type_q) ==
  {DispatchKl(reg, o) : o \in Orders(MatchSet(reg, type_p, type_q))}

\* -------------------------------------------------------------- state
VARIABLES
  registry,   \* _KL_REGISTRY: (type, type) -> function
  memoize,    \* _KL_MEMOIZE: (type, type) -> function or NotImplemented
  warnings,   \* RuntimeWarnings raised since _KL_MEMOIZE was last cleared, per query pair
  last,       \* the call that returned last, with what it returned or raised
  since,      \* observer of the watched specification: the registration that
              \* returned last, when it changed what the kl_divergence call
              \* just before it had to find, kept through the kl_divergence
              \* call that follows it
  pc,         \* interleaved specification: the line each thread is about to run
  frame,      \* interleaved specification: each thread's arguments and local fun
  ncalls      \* interleaved specification: the calls started so far

vars == <<registry, memoize, warnings, last, since, pc, frame, ncalls>>

threadVars == <<pc, frame, ncalls>>

\* The threads of the interleaved specification.
Threads == {"t1", "t2"}

NoFrame == [p |-> "None", q |-> "None", fun |-> "None"]

EmptyDict == [k \in {} |-> "None"]

\* d[key] = value
SetItem(d, key, value) ==
  [k \in DOMAIN d \cup {key} |-> IF k = key THEN value ELSE d[k]]

NoCall ==
  [op |-> "none", p |-> "None", q |-> "None", result |-> "None",
   warned |-> FALSE, hit |-> FALSE, advice |-> NoAdvice]

NoRegistration ==
  [why |-> "none", key |-> NoAdvice, query |-> NoAdvice, old |-> "None"]

Init ==
  /\ registry = EmptyDict
  /\ memoize = EmptyDict
  /\ warnings = EmptyDict
  /\ last = NoCall
  /\ since = NoRegistration
  /\ pc = [t \in Threads |-> "idle"]
  /\ frame = [t \in Threads |-> NoFrame]
  /\ ncalls = 0

\* ------------------------------------------------------- register_kl
\* Line 51 (and 53) raises TypeError: for a class, `not isinstance(t, type)`
\* is False and the `and` stops there; for any other value issubclass is
\* evaluated and raises TypeError itself (its first argument must be a class).
CheckRaises(t) == IF IsClass(t) THEN FALSE ELSE TRUE

\* register_kl(type_p, type_q) raises before it returns the decorator.
RegisterRaises(type_p, type_q) == CheckRaises(type_p) \/ CheckRaises(type_q)

\* A slip in line 57: the registry is rebuilt with the one key.
RegistryOnlyNew(reg, type_p, type_q, fun) == [k \in {<<type_p, type_q>>} |-> fun]

\* A slip in line 57: a key that is registered keeps its function.
RegistryKeepFirst(reg, type_p, type_q, fun) ==
  IF <<type_p, type_q>> \in DOMAIN reg THEN reg
  ELSE [k \in DOMAIN reg \cup {<<type_p, type_q>>} |->
          IF k = <<type_p, type_q>> THEN fun ELSE reg[k]]

\* _KL_REGISTRY after the decorator's line 57.
RegistryAfter(reg, type_p, type_q, fun) == SetItem(reg, <<type_p, type_q>>, fun)

\* A slip in line 58: only the entry of the registered pair is dropped.
MemoizeDropKey(memo, type_p, type_q) ==
  [k \in DOMAIN memo \ {<<type_p, type_q>>} |-> memo[k]]

\* A slip in line 58: the cache is cleared only when the key is a new one.
MemoizeKeptWhenRegistered(memo, type_p, type_q) ==
  IF <<type_p, type_q>> \in DOMAIN registry THEN memo ELSE EmptyDict

\* Line 58 left out: the cache is kept.
MemoizeKept(memo, type_p, type_q) == memo

\* _KL_MEMOIZE after the decorator's line 58, _KL_MEMOIZE.clear().
MemoizeAfterRegister(memo, type_p, type_q) == EmptyDict

\* register_kl(type_p, type_q)(fun) raising TypeError.
RegisterFail(type_p, type_q) ==
  /\ RegisterRaises(type_p, type_q)
  /\ last' = [op |-> "register", p |-> type_p, q |-> type_q, result |-> "TypeError",
              warned |-> FALSE, hit |-> FALSE, advice |-> NoAdvice]
  /\ since' = NoRegistration
  /\ UNCHANGED <<registry, memoize, warnings>>
  /\ UNCHANGED threadVars

\* register_kl(type_p, type_q)(fun) returning fun: lines 56-59.
RegisterStep(type_p, type_q, fun) ==
  /\ ~RegisterRaises(type_p, type_q)
  /\ \/ <<type_p, type_q>> \in DOMAIN registry
     \/ Cardinality(DOMAIN registry) < MaxRules
  /\ registry' = RegistryAfter(registry, type_p, type_q, fun)
  /\ memoize' = MemoizeAfterRegister(memoize, type_p, type_q)
  /\ warnings' = EmptyDict
  /\ last' = [op |-> "register", p |-> type_p, q |-> type_q, result |-> fun,
              warned |-> FALSE, hit |-> FALSE, advice |-> NoAdvice]
  /\ UNCHANGED threadVars

RegisterOk(type_p, type_q, fun) ==
  /\ RegisterStep(type_p, type_q, fun)
  /\ since' = NoRegistration

Register ==
  \E types \in RegisterInputs :
    \/ RegisterFail(types[1], types[2])
    \/ \E fun \in Handlers : RegisterOk(types[1], types[2], fun)

\* What the observer notes of a registration of key: that the
\* kl_divergence call just before it, on types the key matches, had raised
\* NotImplementedError ("unresolved") or had warned naming the key
\* ("advice"), or that the key already held another function ("override",
\* with the call just before it when that call had returned the old function),
\* or that the key already held this very function ("same", with the call
\* just before it and what that call returned).
Observe(type_p, type_q, fun) ==
  LET key == <<type_p, type_q>>
      seen == /\ last.op = "kl"
              /\ issubclass(last.p, type_p)
              /\ issubclass(last.q, type_q)
      had == key \in DOMAIN registry
      query == <<last.p, last.q>>
  IN IF seen /\ last.result = "NotImplementedError"
     THEN [why |-> "unresolved", key |-> key, query |-> query, old |-> "None"]
     ELSE IF seen /\ last.advice = key
     THEN [why |-> "advice", key |-> key, query |-> query,
           old |-> IF had THEN registry[key] ELSE "None"]
     ELSE IF had /\ registry[key] # fun
     THEN [why |-> "override", key |-> key,
           query |-> IF seen /\ last.result = registry[key] THEN query ELSE NoAdvice,
           old |-> registry[key]]
     ELSE IF had /\ seen
     THEN [why |-> "same", key |-> key, query |-> query, old |-> last.result]
     ELSE NoRegistration

RegisterWatched(type_p, type_q, fun) ==
  /\ RegisterStep(type_p, type_q, fun)
  /\ since' = Observe(type_p, type_q, fun)

RegisterW ==
  \E types \in RegisterInputs :
    \/ RegisterFail(types[1], types[2])
    \/ \E fun \in Handlers : RegisterWatched(types[1], types[2], fun)

\* ----------------------------------------------------- kl_divergence
\* The arguments of the exception of line 142, `raise NotImplementedError`:
\* the class is raised bare, so the exception is built with no arguments.
NotImplementedErrorArgs(A, B) == <<>>

\* What kl_divergence does with fun at lines 141-143: raise, or call fun.
Outcome(fun) == IF fun = NotImplemented THEN "NotImplementedError" ELSE fun

\* Line 140 left out: the result is not stored.
MemoizeNotStored(memo, A, B, fun) == memo

\* A slip in line 140: the cache is rebuilt with the one entry.
MemoizeReplaced(memo, A, B, fun) == [k \in {<<A, B>>} |-> fun]

\* A slip in lines 139-140: only a function is stored, NotImplemented is not.
MemoizeHandlersOnly(memo, A, B, fun) ==
  IF fun = NotImplemented THEN memo ELSE SetItem(memo, <<A, B>>, fun)

\* A slip in line 140: the key is built as (type(q), type(p)).
MemoizeSwappedKey(memo, A, B, fun) == SetItem(memo, <<B, A>>, fun)

\* _KL_MEMOIZE after the store of line 140.
MemoizeAfterMiss(memo, A, B, fun) == SetItem(memo, <<A, B>>, fun)

\* One more warning for the query pair.
Warn(w, key) == SetItem(w, key, IF key \in DOMAIN w THEN w[key] + 1 ELSE 1)

\* The observer after kl_divergence on types (A, B): kept when the call
\* follows the registration (or the clearing of the cache) it holds and the
\* key matches the types, dropped otherwise.
Watch(A, B) ==
  IF /\ since.why # "none"
     /\ \/ last.op = "register" /\ last.result \in Handlers
        \/ last.op = "clear"
     /\ issubclass(A, since.key[1])
     /\ issubclass(B, since.key[2])
  THEN since
  ELSE NoRegistration

\* kl_divergence(p, q), type(p) = A and type(q) = B, finding the pair in _KL_MEMOIZE.
KlHit(A, B) ==
  /\ <<A, B>> \in DOMAIN memoize
  /\ last' = [op |-> "kl", p |-> A, q |-> B, result |-> Outcome(memoize[<<A, B>>]),
              warned |-> FALSE, hit |-> TRUE, advice |-> NoAdvice]
  /\ since' = Watch(A, B)
  /\ UNCHANGED <<registry, memoize, warnings>>
  /\ UNCHANGED threadVars

\* kl_divergence(p, q) on a KeyError: _dispatch_kl, then the store of line 140.
KlMiss(A, B) ==
  /\ <<A, B>> \notin DOMAIN memoize
  /\ Cardinality(DOMAIN memoize) < MaxMemo
  /\ \E d \in Resolutions(registry, A, B) :
       /\ memoize' = MemoizeAfterMiss(memoize, A, B, d.fun)
       /\ warnings' = IF d.warned THEN Warn(warnings, <<A, B>>) ELSE warnings
       /\ last' = [op |-> "kl", p |-> A, q |-> B, result |-> Outcome(d.fun),
                   warned |-> d.warned, hit |-> FALSE, advice |-> d.advice]
  /\ since' = Watch(A, B)
  /\ UNCHANGED registry
  /\ UNCHANGED threadVars

KlDivergence ==
  \E types \in QueryInputs :
    \/ KlHit(types[1], types[2])
    \/ KlMiss(types[1], types[2])

Next ==
  \/ Register
  \/ KlDivergence

Spec == Init /\ [][Next]_vars

\* The same program with the observer `since` switched on.
NextWatch ==
  \/ RegisterW
  \/ KlDivergence

SpecWatch == Init /\ [][NextWatch]_vars

\* _KL_MEMOIZE.clear() run on its own, as any code holding the module may do.
\* The observer notes the kl_divergence call just before it.
MemoizeClear ==
  /\ memoize' = EmptyDict
  /\ warnings' = EmptyDict
  /\ last' = [op |-> "clear", p |-> "None", q |-> "None", result |-> "None",
              warned |-> FALSE, hit |-> FALSE, advice |-> NoAdvice]
  /\ since' = IF last.op = "kl"
              THEN [why |-> "cleared", key |-> <<last.p, last.q>>,
                    query |-> <<last.p, last.q>>, old |-> last.result]
              ELSE NoRegistration
  /\ UNCHANGED registry
  /\ UNCHANGED threadVars

\* The program with the cache also emptied at arbitrary points.
NextClear ==
  \/ Register
  \/ KlDivergence
  \/ MemoizeClear

SpecClear == Init /\ [][NextClear]_vars

\* ------------------------------------------- threads without a lock
\* The same two functions run by threads, one dictionary operation at a
\* time: the registry write (57), the cache clear (58), the cache read (137),
\* the registry scan (_dispatch_kl, 139) and the cache write (140). The module
\* takes no lock, so any interleaving of these steps can happen.

\* The (type_p, type_q) arguments the threads call register_kl with: pairs of
\* Distribution classes, and the pairs holding a value that is no class.
ThreadRegisterInputs == RegisterInputs \ {<<"object", "object">>}

\* A thread calls register_kl(type_p, type_q), which raises at line 51 or 53.
TRegisterRaise(t, type_p, type_q) ==
  /\ pc[t] = "idle"
  /\ ncalls < MaxCalls
  /\ RegisterRaises(type_p, type_q)
  /\ ncalls' = ncalls + 1
  /\ last' = [op |-> "register", p |-> type_p, q |-> type_q, result |-> "TypeError",
              warned |-> FALSE, hit |-> FALSE, advice |-> NoAdvice]
  /\ UNCHANGED <<registry, memoize, warnings, since, pc, frame>>

\* A thread calls register_kl(type_p, type_q)(fun) and is about to run line 57.
TRegisterCall(t, type_p, type_q, fun) ==
  /\ pc[t] = "idle"
  /\ ncalls < MaxCalls
  /\ ~RegisterRaises(type_p, type_q)
  /\ \/ <<type_p, type_q>> \in DOMAIN registry
     \/ Cardinality(DOMAIN registry) < MaxRules
  /\ ncalls' = ncalls + 1
  /\ pc' = [pc EXCEPT ![t] = "line57"]
  /\ frame' = [frame EXCEPT ![t] = [p |-> type_p, q |-> type_q, fun |-> fun]]
  /\ UNCHANGED <<registry, memoize, warnings, last, since>>

\* Line 57: _KL_REGISTRY[type_p, type_q] = fun.
TWriteRegistry(t) ==
  /\ pc[t] = "line57"
  /\ registry' = RegistryAfter(registry, frame[t].p, frame[t].q, frame[t].fun)
  /\ pc' = [pc EXCEPT ![t] = "line58"]
  /\ UNCHANGED <<memoize, warnings, last, since, frame, ncalls>>

\* Lines 58-59: _KL_MEMOIZE.clear(); return fun.
TClearMemoize(t) ==
  /\ pc[t] = "line58"
  /\ memoize' = MemoizeAfterRegister(memoize, frame[t].p, frame[t].q)
  /\ warnings' = EmptyDict
  /\ last' = [op |-> "register", p |-> frame[t].p, q |-> frame[t].q,
              result |-> frame[t].fun,
              warned |-> FALSE, hit |-> FALSE, advice |-> NoAdvice]
  /\ pc' = [pc EXCEPT ![t] = "idle"]
  /\ frame' = [frame EXCEPT ![t] = NoFrame]
  /\ UNCHANGED <<registry, since, ncalls>>

\* A thread calls kl_divergence(p, q), type(p) = A and type(q) = B.
TKlCall(t, A, B) ==
  /\ pc[t] = "idle"
  /\ ncalls < MaxCalls
  /\ ncalls' = ncalls + 1
  /\ pc' = [pc EXCEPT ![t] = "line137"]
  /\ frame' = [frame EXCEPT ![t] = [p |-> A, q |-> B, fun |-> "None"]]
  /\ UNCHANGED <<registry, memoize, warnings, last, since>>

\* Line 137: fun = _KL_MEMOIZE[type(p), type(q)], or KeyError.
TReadMemoize(t) ==
  /\ pc[t] = "line137"
  /\ \/ /\ <<frame[t].p, frame[t].q>> \in DOMAIN memoize
        /\ frame' = [frame EXCEPT ![t].fun = memoize[<<frame[t].p, frame[t].q>>]]
        /\ pc' = [pc EXCEPT ![t] = "line141hit"]
     \/ /\ <<frame[t].p, frame[t].q>> \notin DOMAIN memoize
        /\ pc' = [pc EXCEPT ![t] = "line139"]
        /\ UNCHANGED frame
  /\ UNCHANGED <<registry, memoize, warnings, last, since, ncalls>>

\* Line 139: fun = _dispatch_kl(type(p), type(q)), one scan of the registry.
TDispatch(t) ==
  /\ pc[t] = "line139"
  /\ \E d \in Resolutions(registry, frame[t].p, frame[t].q) :
       /\ frame' = [frame EXCEPT ![t].fun = d.fun]
       /\ warnings' = IF d.warned THEN Warn(warnings, <<frame[t].p, frame[t].q>>)
                      ELSE warnings
  /\ pc' = [pc EXCEPT ![t] = "line140"]
  /\ UNCHANGED <<registry, memoize, last, since, ncalls>>

\* Line 140: _KL_MEMOIZE[type(p), type(q)] = fun.
TWriteMemoize(t) ==
  /\ pc[t] = "line140"
  /\ memoize' = MemoizeAfterMiss(memoize, frame[t].p, frame[t].q, frame[t].fun)
  /\ pc' = [pc EXCEPT ![t] = "line141"]
  /\ UNCHANGED <<registry, warnings, last, since, frame, ncalls>>

\* Lines 141-143: raise NotImplementedError, or return fun(p, q).
TReturn(t) ==
  /\ pc[t] \in {"line141", "line141hit"}
  /\ last' = [op |-> "kl", p |-> frame[t].p, q |-> frame[t].q,
              result |-> Outcome(frame[t].fun),
              warned |-> FALSE, hit |-> pc[t] = "line141hit", advice |-> NoAdvice]
  /\ pc' = [pc EXCEPT ![t] = "idle"]
  /\ frame' = [frame EXCEPT ![t] = NoFrame]
  /\ UNCHANGED <<registry, memoize, warnings, since, ncalls>>

NextThreads ==
  \E t \in Threads :
    \/ \E types \in ThreadRegisterInputs :
         \/ TRegisterRaise(t, types[1], types[2])
         \/ \E fun \in Handlers : TRegisterCall(t, types[1], types[2], fun)
    \/ TWriteRegistry(t)
    \/ TClearMemoize(t)
    \/ \E types \in QueryInputs : TKlCall(t, types[1], types[2])
    \/ TReadMemoize(t)
    \/ TDispatch(t)
    \/ TWriteMemoize(t)
    \/ TReturn(t)

SpecThreads == Init /\ [][NextThreads]_vars

\* ------------------------------------------------- the specification's terms
RECURSIVE Ancestors(_)
\* A type with all the types it inherits from.
Ancestors(c) == IF Parent(c) = "None" THEN {c} ELSE {c} \cup Ancestors(Parent(c))

\* x is-subtype-of y.
Subtype(x, y) == y \in Ancestors(x)

StrictSubtype(x, y) == x # y /\ Subtype(x, y)

\* The Candidate Set of a query: the registered pairs that are ancestor-or-equal
\* to the query types in both positions.
Candidates(A, B) == {k \in DOMAIN registry : Subtype(A, k[1]) /\ Subtype(B, k[2])}

\* The candidates minimal in first-argument-priority order: the most specific
\* first type, and among those the most specific second type.
FirstPriority(C) ==
  LET best == {k \in C : \A m \in C : Subtype(k[1], m[1])}
  IN {k \in best : \A m \in best : Subtype(k[2], m[2])}

\* The candidates minimal in second-argument-priority order.
SecondPriority(C) ==
  LET best == {k \in C : \A m \in C : Subtype(k[2], m[2])}
  IN {k \in best : \A m \in best : Subtype(k[1], m[1])}

\* The last call was kl_divergence on instances of types (A, B).
Queried(A, B) == last.op = "kl" /\ last.p = A /\ last.q = B

\* --------------------------------------------------------------- C1
\* C1: whenever kl_divergence is called on types with a non-empty Candidate
\* Set, exactly one candidate is minimal in first-argument-priority order and
\* the call invokes that candidate's handler, warning or not.
C1_FirstPriorityHandler ==
  (last.op = "kl" /\ Candidates(last.p, last.q) # {}) =>
    \E k \in Candidates(last.p, last.q) :
      /\ FirstPriority(Candidates(last.p, last.q)) = {k}
      /\ last.result = registry[k]

\* A call that scanned three candidates, warned, and returned a handler.
C1_Witness ==
  /\ last.op = "kl"
  /\ ~last.hit
  /\ last.warned
  /\ last.result \in Handlers
  /\ Cardinality(Candidates(last.p, last.q)) = 3

\* --------------------------------------------------------------- C2
\* The registry holds exactly the two crossed rules (BaseP, DerivedQ) and
\* (DerivedP, BaseQ), with distinct handlers.
Crossed(BaseP, DerivedP, BaseQ, DerivedQ) ==
  /\ DOMAIN registry = {<<BaseP, DerivedQ>>, <<DerivedP, BaseQ>>}
  /\ StrictSubtype(DerivedP, BaseP)
  /\ StrictSubtype(DerivedQ, BaseQ)
  /\ registry[<<BaseP, DerivedQ>>] # registry[<<DerivedP, BaseQ>>]

\* C2 as stated: with exactly the crossed rules registered, a query on
\* (DerivedP, DerivedQ) returns the handler of the (BaseP, DerivedQ) rule.
C2_CrossedReturnsBasePRule ==
  \A k1, k2 \in DOMAIN registry :
    LET BaseP == k1[1]
        DerivedQ == k1[2]
        DerivedP == k2[1]
        BaseQ == k2[2]
    IN (Crossed(BaseP, DerivedP, BaseQ, DerivedQ) /\ Queried(DerivedP, DerivedQ)) =>
         last.result = registry[<<BaseP, DerivedQ>>]

\* C2 amended: with exactly the crossed rules registered, a query on
\* (DerivedP, DerivedQ) returns the handler of the (DerivedP, BaseQ) rule.
C2_CrossedReturnsDerivedPRule ==
  \A k1, k2 \in DOMAIN registry :
    LET BaseP == k1[1]
        DerivedQ == k1[2]
        DerivedP == k2[1]
        BaseQ == k2[2]
    IN (Crossed(BaseP, DerivedP, BaseQ, DerivedQ) /\ Queried(DerivedP, DerivedQ)) =>
         last.result = registry[<<DerivedP, BaseQ>>]

\* The crossed rules are registered and (DerivedP, DerivedQ) was just resolved.
C2_Witness ==
  \E k1, k2 \in DOMAIN registry :
    LET BaseP == k1[1]
        DerivedQ == k1[2]
        DerivedP == k2[1]
        BaseQ == k2[2]
    IN /\ Crossed(BaseP, DerivedP, BaseQ, DerivedQ)
       /\ Queried(DerivedP, DerivedQ)
       /\ ~last.hit
       /\ DerivedP # DerivedQ

\* --------------------------------------------------------------- C3
\* C3: every entry of the memoization cache is what the resolver computes for
\* its key against the registry as it is now.
C3_CacheCoherent ==
  \A k \in DOMAIN memoize :
    \A d \in Resolutions(registry, k[1], k[2]) : memoize[k] = d.fun

\* The cache holds a handler resolved through a subtype match while three
\* rules are registered.
C3_Witness ==
  \E k \in DOMAIN memoize :
    /\ memoize[k] \in Handlers
    /\ k \notin DOMAIN registry
    /\ Cardinality(DOMAIN registry) = 3

\* --------------------------------------------------------------- C4
\* C4: a query with an empty Candidate Set raises NotImplementedError and
\* calls no handler; after a matching rule is registered next, the same
\* query calls the newly registered handler.
C4_UnresolvedThenRegistered ==
  /\ (last.op = "kl" /\ Candidates(last.p, last.q) = {}) =>
       last.result = "NotImplementedError"
  /\ (since.why = "unresolved" /\ Queried(since.query[1], since.query[2])) =>
       /\ last.result \in Handlers
       /\ last.result = registry[since.key]

\* The query that had failed was repeated after the registration, through a
\* rule for ancestors of its types.
C4_Witness ==
  /\ since.why = "unresolved"
  /\ Queried(since.query[1], since.query[2])
  /\ since.key # since.query
  /\ last.result \in Handlers

\* --------------------------------------------------------------- C5
\* C5: after a registered pair is registered again with another handler, a
\* query whose selected rule is that pair calls the new handler, never the old.
C5_OverrideTakesEffect ==
  (since.why = "override" /\ last.op = "kl"
     /\ FirstPriority(Candidates(last.p, last.q)) = {since.key}) =>
    /\ last.result = registry[since.key]
    /\ last.result # since.old

\* The query had returned the old handler just before the pair was registered
\* again, and was repeated after it.
C5_Witness ==
  /\ since.why = "override"
  /\ since.query # NoAdvice
  /\ since.query # since.key
  /\ Queried(since.query[1], since.query[2])
  /\ FirstPriority(Candidates(last.p, last.q)) = {since.key}

\* --------------------------------------------------------------- C6
\* C6: registering with a token that is no Distribution type raises a type
\* error, and no registry key holds such a token.
C6_OnlyDistributionKeys ==
  /\ \A k \in DOMAIN registry : k[1] \in DistClasses /\ k[2] \in DistClasses
  /\ (last.op = "register" /\ (last.p \notin DistClasses \/ last.q \notin DistClasses)) =>
       last.result = "TypeError"

\* --------------------------------------------------------------- C7
\* C7: when a rule is registered for exactly the query pair, the query calls
\* that rule's handler and raises no warning.
C7_ExactMatchWins ==
  (last.op = "kl" /\ <<last.p, last.q>> \in DOMAIN registry) =>
    /\ last.result = registry[<<last.p, last.q>>]
    /\ ~last.warned
    /\ <<last.p, last.q>> \notin DOMAIN warnings

\* The exact rule was chosen over two rules for ancestor pairs, one of them
\* holding another handler.
C7_Witness ==
  /\ last.op = "kl"
  /\ ~last.hit
  /\ <<last.p, last.q>> \in DOMAIN registry
  /\ Cardinality(Candidates(last.p, last.q)) = 3
  /\ \E k \in Candidates(last.p, last.q) : registry[k] # last.result

\* --------------------------------------------------------------- C8
\* The two priority orders select rules with different handlers.
Ambiguous(A, B) ==
  \E l \in FirstPriority(Candidates(A, B)) :
    \E r \in SecondPriority(Candidates(A, B)) : registry[l] # registry[r]

\* C8: since the most recent registration an ambiguous pair that was queried
\* has raised exactly one warning, in the call that missed the cache; that
\* call returned a handler and memoized it; a call served from the cache
\* raises none.
C8_WarnedOnce ==
  /\ \A k \in DOMAIN memoize : Ambiguous(k[1], k[2]) => k \in DOMAIN warnings
  /\ \A k \in DOMAIN warnings : warnings[k] = 1
  /\ (last.op = "kl" /\ last.warned) =>
       /\ ~last.hit
       /\ last.result \in Handlers
       /\ <<last.p, last.q>> \in DOMAIN memoize
       /\ memoize[<<last.p, last.q>>] = last.result
  /\ (last.op = "kl" /\ last.hit) => ~last.warned

\* A further call on an ambiguous pair, served from the cache.
C8_Witness ==
  /\ last.op = "kl"
  /\ last.hit
  /\ Ambiguous(last.p, last.q)
  /\ <<last.p, last.q>> \in DOMAIN warnings

\* --------------------------------------------------------------- C9
\* C9: the pair a warning names is (first type of the first-priority minimum,
\* second type of the second-priority minimum) and is no key of the registry;
\* once it is registered next, the same query calls the handler registered
\* under it and raises no warning.
C9_AdviceResolves ==
  /\ (last.op = "kl" /\ last.warned) =>
       /\ last.advice \notin DOMAIN registry
       /\ \E l \in FirstPriority(Candidates(last.p, last.q)) :
            \E r \in SecondPriority(Candidates(last.p, last.q)) :
              last.advice = <<l[1], r[2]>>
  /\ (since.why = "advice" /\ Queried(since.query[1], since.query[2])) =>
       /\ last.result = registry[since.key]
       /\ ~last.warned
       /\ since.query \notin DOMAIN warnings

\* The named pair was registered with the handler the warned call had not
\* returned, and the query was repeated.
C9_Witness ==
  /\ since.why = "advice"
  /\ Queried(since.query[1], since.query[2])
  /\ ~last.hit
  /\ \E k \in Candidates(last.p, last.q) : registry[k] # last.result

\* -------------------------------------------------------------- C10
\* C10: when the steps of concurrent register_kl and kl_divergence calls
\* interleave, once every call has completed each cache entry equals a fresh
\* resolution of its key against the final registry.
C10_QuiescentCacheCoherent ==
  (\A t \in Threads : pc[t] = "idle") =>
    \A k \in DOMAIN memoize :
      \A d \in Resolutions(registry, k[1], k[2]) : memoize[k] = d.fun

\* -------------------------------------------------------------- C11
\* What a kl_divergence without a cache does on types (A, B): it runs the
\* resolver against the registry on every call.
CacheFree(A, B) == {Outcome(d.fun) : d \in Resolutions(registry, A, B)}

\* C11: with the cache also emptied at arbitrary points, every kl_divergence
\* call invokes the handler, or raises the NotImplementedError, that a
\* cache-free implementation gives against the current registry; a call
\* repeated right after the cache was emptied gives what it gave before.
C11_CacheIsTransparent ==
  /\ last.op = "kl" => CacheFree(last.p, last.q) = {last.result}
  /\ (since.why = "cleared" /\ Queried(since.query[1], since.query[2])) =>
       /\ ~last.hit
       /\ last.result = since.old

\* A query was made, the cache emptied, and the query resolved again through
\* a subtype match.
C11_Witness ==
  /\ since.why = "cleared"
  /\ Queried(since.query[1], since.query[2])
  /\ last.result \in Handlers
  /\ since.query \notin DOMAIN registry
  /\ Cardinality(DOMAIN registry) >= 2

\* -------------------------------------------------------------- C12
\* The registration is of a pair that already holds the very handler.
SameAgain(type_p, type_q, fun) ==
  /\ <<type_p, type_q>> \in DOMAIN registry
  /\ registry[<<type_p, type_q>>] = fun

\* C12: registering a pair again with the handler it already has leaves the
\* registry mapping as it was and empties the cache; the cache is empty
\* right after every successful registration; and a query made before the
\* re-registration calls the same handler when it is made again after it,
\* resolved anew.
C12_SameRegistrationIsNoOp ==
  /\ [](/\ (last.op = "register" /\ last.result \in Handlers) => memoize = EmptyDict
        /\ (since.why = "same" /\ Queried(since.query[1], since.query[2])) =>
             /\ ~last.hit
             /\ last.result = since.old)
  /\ [][(last'.op = "register" /\ SameAgain(last'.p, last'.q, last'.result)) =>
         /\ registry' = registry
         /\ memoize' = EmptyDict]_vars

\* A query through a subtype match, the matching pair registered again with
\* its handler, and the query made again.
C12_Witness ==
  /\ since.why = "same"
  /\ Queried(since.query[1], since.query[2])
  /\ since.query # since.key
  /\ last.result \in Handlers
  /\ Cardinality(DOMAIN registry) >= 2

\* -------------------------------------------------------------- C13
\* C13: a kl_divergence call leaves the registry as it is; on a pair the
\* cache holds it leaves the cache as it is and invokes what the cache holds;
\* on a pair the cache does not hold it adds the entry of that pair and
\* touches no other; and the entry it leaves is what it invoked, so repeated
\* calls on the same types invoke the same handler.
C13_RepeatedQueriesAgree ==
  /\ [](last.op = "kl" =>
          /\ <<last.p, last.q>> \in DOMAIN memoize
          /\ Outcome(memoize[<<last.p, last.q>>]) = last.result)
  /\ [][last'.op = "kl" =>
         LET key == <<last'.p, last'.q>>
         IN /\ registry' = registry
            /\ key \in DOMAIN memoize =>
                 /\ memoize' = memoize
                 /\ warnings' = warnings
                 /\ last'.result = Outcome(memoize[key])
            /\ key \notin DOMAIN memoize =>
                 /\ DOMAIN memoize' = DOMAIN memoize \cup {key}
                 /\ \A k \in DOMAIN memoize : memoize'[k] = memoize[k]]_vars

\* A handler invoked from the cache while the cache holds two pairs.
C13_Witness ==
  /\ last.op = "kl"
  /\ last.hit
  /\ last.result \in Handlers
  /\ Cardinality(DOMAIN memoize) = 2
  /\ ~Ambiguous(last.p, last.q)

\* -------------------------------------------------------------- C17
\* C17: after a kl_divergence call on (A, B) raised NotImplementedError the
\* cache holds NotImplemented under (A, B); and a call on a pair under which
\* the cache holds NotImplemented raises NotImplementedError from the cache,
\* without running the resolver and without touching the cache.
C17_UnresolvedIsMemoized ==
  /\ []((last.op = "kl" /\ last.result = "NotImplementedError") =>
          /\ <<last.p, last.q>> \in DOMAIN memoize
          /\ memoize[<<last.p, last.q>>] = NotImplemented)
  /\ [][(/\ last'.op = "kl"
          /\ <<last'.p, last'.q>> \in DOMAIN memoize
          /\ memoize[<<last'.p, last'.q>>] = NotImplemented) =>
         /\ last'.hit
         /\ last'.result = "NotImplementedError"
         /\ memoize' = memoize]_vars

\* The query failed again, from the cache, while rules for other pairs are
\* registered.
C17_Witness ==
  /\ last.op = "kl"
  /\ last.hit
  /\ last.result = "NotImplementedError"
  /\ registry # EmptyDict

\* -------------------------------------------------------------- C14
\* C14: the NotImplementedError that kl_divergence raises on an unresolved
\* query names the two types of the instances.
C14_ErrorNamesTypes ==
  (last.op = "kl" /\ last.result = "NotImplementedError") =>
    LET args == NotImplementedErrorArgs(last.p, last.q)
    IN /\ \E i \in DOMAIN args : args[i] = last.p
       /\ \E i \in DOMAIN args : args[i] = last.q

\* -------------------------------------------------------------- C15
\* C15: a resolution raises the warning exactly when the handler of the
\* first-priority minimum and the handler of the second-priority minimum are
\* different, whether or not the two selected pairs differ.
C15_WarnsIffHandlersDiffer ==
  (last.op = "kl" /\ ~last.hit) => (last.warned <=> Ambiguous(last.p, last.q))

\* One handler is registered under both crossed pairs, the two orders
\* selected different pairs, and the query raised no warning.
C15_Witness ==
  /\ last.op = "kl"
  /\ ~last.hit
  /\ ~last.warned
  /\ \E l \in FirstPriority(Candidates(last.p, last.q)) :
       \E r \in SecondPriority(Candidates(last.p, last.q)) :
         /\ l # r
         /\ StrictSubtype(l[1], r[1])
         /\ StrictSubtype(r[2], l[2])
         /\ registry[l] = registry[r]
         /\ last.result = registry[l]

\* -------------------------------------------------------------- C16
\* _Match.__le__ is a total order on the set C of pairs.
TotalOrder(C) ==
  \A m, n \in C :
    /\ MatchLe(m, n) \/ MatchLe(n, m)
    /\ (MatchLe(m, n) /\ MatchLe(n, m)) => MatchEq(m, n)

\* C16: for every registry a registration leaves, on the candidates of every
\* query, and on the candidates reversed, the comparator is a total order,
\* and the resolver gives the same handler, the same warning and the same
\* named pair in whatever order the registry hands out its keys.
C16_OrderIsIrrelevant ==
  (last.op = "register" /\ last.result \in Handlers) =>
    \A types \in QueryInputs :
      LET C == MatchSet(registry, types[1], types[2])
      IN /\ TotalOrder(C)
         /\ TotalOrder({Reversed(m) : m \in C})
         /\ Cardinality(Resolutions(registry, types[1], types[2])) = 1

\* The third of three candidates of a query was just registered; two of the
\* three are crossed and hold different handlers.
C16_Witness ==
  /\ last.op = "register"
  /\ last.result \in Handlers
  /\ \E types \in QueryInputs :
       /\ types \notin DOMAIN registry
       /\ Cardinality(Candidates(types[1], types[2])) = 3
       /\ \E m, n \in Candidates(types[1], types[2]) :
            /\ StrictSubtype(m[1], n[1])
            /\ StrictSubtype(n[2], m[2])
            /\ registry[m] # registry[n]

\* -------------------------------------------------------------- C18
\* C18: a successful register_kl(p, q)(h) sets key (p, q) to h, returns h,
\* and leaves every other key with its handler; nothing else changes the
\* registry, and no key is ever removed.
C18_RegistrationFrame ==
  /\ []((last.op = "register" /\ last.result \in Handlers) =>
          /\ <<last.p, last.q>> \in DOMAIN registry
          /\ registry[<<last.p, last.q>>] = last.result)
  /\ [][/\ DOMAIN registry \subseteq DOMAIN registry'
        /\ (last'.op = "register" /\ last'.result \in Handlers) =>
             LET key == <<last'.p, last'.q>>
             IN /\ DOMAIN registry' = DOMAIN registry \cup {key}
                /\ registry'[key] = last'.result
                /\ \A k \in DOMAIN registry \ {key} : registry'[k] = registry[k]
        /\ ~(last'.op = "register" /\ last'.result \in Handlers) =>
             registry' = registry]_vars

\* The handler just registered is also held by another pair, next to a pair
\* holding another handler.
C18_Witness ==
  /\ last.op = "register"
  /\ last.result \in Handlers
  /\ Cardinality(DOMAIN registry) = 3
  /\ \E k \in DOMAIN registry :
       k # <<last.p, last.q>> /\ registry[k] = last.result
  /\ \E k \in DOMAIN registry : registry[k] # last.result

====
